---------------------------- MODULE Spec2Model ----------------------------
(***************************************************************************)
(* arxiv_alert: the orchestrator (arxiv_alert.py: main), the history of    *)
(* sent papers (search.py: load_sent_papers, save_sent_papers), the        *)
(* keyword search (search.py: search_papers) and the notifier's result     *)
(* (email_sender.py: send_email).                                          *)
(*                                                                         *)
(* Spec       : runs of main, one after the other, over one history file.  *)
(* SpecSearch : search_papers applied to every input of a bounded set.     *)
(*                                                                         *)
(* A text (title, abstract, keyword) is a sequence of one-character        *)
(* strings, so that lower() and the substring test are computed.           *)
(***************************************************************************)
EXTENDS Naturals, Sequences, FiniteSets

VARIABLES
    pc,              \* position in main ("call"/"return" under SpecSearch)
    history_file,    \* the content of the history file on disk
    keyword_groups,  \* search_config['keyword_groups']
    search_title,    \* search_config['search_title']
    search_abstract, \* search_config['search_abstract']
    dry_run,         \* args.dry_run
    sent_papers,     \* main's set of sent paper ids
    papers,          \* the fetched papers
    matched_papers,  \* search_papers' result
    success,         \* main's success flag
    error,           \* the step whose exception main's except clause caught
    exit_code,       \* what main returned
    save_result,     \* how the run's save_sent_papers ended
    loaded,          \* history: what load_sent_papers returned in this run
    email,           \* history: what the notifier did in this run
    delivered,       \* history: id -> number of digests sent that held it
    history0,        \* history: the history file before the first run
    history_before,  \* history: the history file when this run started
    prev,            \* history: the run before, if its delivery failed
                     \* or if it was a dry run that searched
    runs             \* number of the current run

vars == <<pc, history_file, keyword_groups, search_title, search_abstract,
          dry_run, sent_papers, papers, matched_papers, success, error,
          exit_code, save_result, loaded, email, delivered, history0,
          history_before, prev, runs>>

---------------------------------------------------------------------------
(* Bounds *)

MaxRuns == 2
MaxPapers == 2
MaxGroups == 2
MaxKeywords == 2

---------------------------------------------------------------------------
(* Texts *)

\* str.lower() on one character
LowerChar(c) ==
    CASE c = "A" -> "a"
      [] c = "B" -> "b"
      [] OTHER -> c

\* str.lower()
Lower(s) == [i \in DOMAIN s |-> LowerChar(s[i])]

\* Python's `sub in text` on strings
Contains(sub, text) ==
    \E i \in 0..Len(text) :
        /\ i + Len(sub) <= Len(text)
        /\ SubSeq(text, i + 1, i + Len(sub)) = sub

SeqsUpTo(S, n) == UNION {[1..k -> S] : k \in 0..n}

ToSet(s) == {s[i] : i \in DOMAIN s}

\* list(a_set): the elements, each once, in some order
SetToList(S) ==
    CHOOSE s \in [1..Cardinality(S) -> S] : ToSet(s) = S

---------------------------------------------------------------------------
(* Inputs *)

Paper1 == [id |-> "p1", title |-> <<"A", "b">>, abstract |-> <<"A">>]
Paper2 == [id |-> "p2", title |-> <<"b">>, abstract |-> <<"a">>]
PaperPool == {Paper1, Paper2}
Ids == {p.id : p \in PaperPool}

Keyword1 == <<"a", "B">>
Keyword2 == <<"B", " ", "A">>
KeywordPool == {Keyword1, Keyword2}

PaperLists == SeqsUpTo(PaperPool, MaxPapers)
KeywordGroups == SeqsUpTo(KeywordPool, MaxKeywords)
RuleSets == SeqsUpTo(KeywordGroups, MaxGroups)

\* the search options a config.json of a run of main may hold
Configs ==
    { [keyword_groups |-> <<>>,
       search_title |-> TRUE, search_abstract |-> TRUE],
      [keyword_groups |-> << <<Keyword1>> >>,
       search_title |-> TRUE, search_abstract |-> TRUE],
      [keyword_groups |-> << <<Keyword1>> >>,
       search_title |-> FALSE, search_abstract |-> FALSE],
      [keyword_groups |-> << <<Keyword1, Keyword2>>, <<Keyword2>> >>,
       search_title |-> TRUE, search_abstract |-> TRUE],
      [keyword_groups |-> << <<Keyword1, Keyword2>>, <<Keyword2>> >>,
       search_title |-> TRUE, search_abstract |-> FALSE],
      [keyword_groups |-> << <<>> >>,
       search_title |-> FALSE, search_abstract |-> TRUE] }

\* what the history file may hold before the first run
HistoryFiles ==
    {[kind |-> k, sent_papers |-> <<>>] :
        k \in {"absent", "unreadable", "garbled", "nonobject"}}
    \cup {[kind |-> "object", sent_papers |-> SetToList(S)] : S \in SUBSET Ids}

IdsOf(ps) == {ps[i].id : i \in DOMAIN ps}

---------------------------------------------------------------------------
(* search.py: search_papers.  The call's state is the record                *)
(*   [matched_papers, sent_papers, papers, keyword_groups]:                 *)
(* the list being built and the three objects the caller passed in.         *)

\* what the text of `paper` is searched in
SearchText(paper, title, abstract) ==
    (IF title THEN Lower(paper.title) \o <<" ">> ELSE <<>>)
    \o (IF abstract THEN Lower(paper.abstract) ELSE <<>>)

\* a bug: any keyword of the group is enough
RECURSIVE KeywordLoop_Any(_, _)
KeywordLoop_Any(keyword_group, search_text) ==
    IF keyword_group = <<>> THEN FALSE
    ELSE IF Contains(Lower(Head(keyword_group)), search_text) THEN TRUE
    ELSE KeywordLoop_Any(Tail(keyword_group), search_text)

\* a bug: a group with no keyword is never satisfied
KeywordLoop_EmptyFails(keyword_group, search_text) ==
    /\ keyword_group # <<>>
    /\ \A k \in DOMAIN keyword_group :
          Contains(Lower(keyword_group[k]), search_text)

\* the loop over the keywords of one group: all_keywords_match
RECURSIVE KeywordLoop(_, _)
KeywordLoop(keyword_group, search_text) ==
    IF keyword_group = <<>> THEN TRUE
    ELSE IF ~Contains(Lower(Head(keyword_group)), search_text) THEN FALSE
    ELSE KeywordLoop(Tail(keyword_group), search_text)

\* a bug: no break after the append
RECURSIVE GroupLoop_NoBreak(_, _, _, _)
GroupLoop_NoBreak(st, paper, g, search_text) ==
    IF g > Len(st.keyword_groups) THEN st
    ELSE IF KeywordLoop(st.keyword_groups[g], search_text)
         THEN GroupLoop_NoBreak(
                  [st EXCEPT !.matched_papers = Append(@, paper)],
                  paper, g + 1, search_text)
         ELSE GroupLoop_NoBreak(st, paper, g + 1, search_text)

\* the loop over the keyword groups, from group g on
RECURSIVE GroupLoop(_, _, _, _)
GroupLoop(st, paper, g, search_text) ==
    IF g > Len(st.keyword_groups) THEN st
    ELSE IF KeywordLoop(st.keyword_groups[g], search_text)
         THEN [st EXCEPT !.matched_papers = Append(@, paper)]
         ELSE GroupLoop(st, paper, g + 1, search_text)

\* a bug: no test of sent_papers
PaperBody_NoDedup(st, paper, title, abstract) ==
    IF ~title /\ ~abstract THEN st
    ELSE GroupLoop(st, paper, 1, SearchText(paper, title, abstract))

\* a bug: no test of the two flags
PaperBody_NoScope(st, paper, title, abstract) ==
    IF paper.id \in st.sent_papers THEN st
    ELSE GroupLoop(st, paper, 1, SearchText(paper, title, abstract))

\* a bug: the search marks what it matched as sent
PaperBody_Marks(st, paper, title, abstract) ==
    IF paper.id \in st.sent_papers THEN st
    ELSE IF ~title /\ ~abstract THEN st
    ELSE LET r == GroupLoop(st, paper, 1, SearchText(paper, title, abstract))
         IN  IF r.matched_papers = st.matched_papers THEN r
             ELSE [r EXCEPT !.sent_papers = @ \cup {paper.id}]

\* the body of the loop over the papers
PaperBody(st, paper, title, abstract) ==
    IF paper.id \in st.sent_papers THEN st
    ELSE IF ~title /\ ~abstract THEN st
    ELSE GroupLoop(st, paper, 1, SearchText(paper, title, abstract))

\* the loop over the papers, from paper i on
RECURSIVE PaperLoop(_, _, _, _)
PaperLoop(st, i, title, abstract) ==
    IF i > Len(st.papers) THEN st
    ELSE PaperLoop(PaperBody(st, st.papers[i], title, abstract),
                   i + 1, title, abstract)

\* main always passes its set, so `sent_papers is None` is never taken
search_papers(ps, groups, title, abstract, sent) ==
    PaperLoop([matched_papers |-> <<>>, sent_papers |-> sent,
               papers |-> ps, keyword_groups |-> groups],
              1, title, abstract)

---------------------------------------------------------------------------
(* search.py: the history file.  Its content is one of                      *)
(*   absent     no file at the path                                         *)
(*   unreadable open() or read() raises IOError                             *)
(*   garbled    not JSON (an empty or cut-off file among them)              *)
(*   nonobject  JSON, but not an object with a list under 'sent_papers'     *)
(*              (or bytes that are no text): json.load or .get or set()     *)
(*              raises what load_sent_papers does not catch                 *)
(*   object     what save_sent_papers writes: the ids as a list             *)

\* load_sent_papers: [raised, value]; raised when the exception is not one
\* the function catches
load_sent_papers(file) ==
    CASE file.kind = "absent" ->
            [raised |-> FALSE, value |-> {}]        \* not os.path.exists
      [] file.kind = "unreadable" ->
            [raised |-> FALSE, value |-> {}]        \* IOError, caught
      [] file.kind = "garbled" ->
            [raised |-> FALSE, value |-> {}]        \* JSONDecodeError, caught
      [] file.kind = "nonobject" ->
            [raised |-> TRUE, value |-> {}]         \* AttributeError/TypeError
      [] OTHER ->
            [raised |-> FALSE, value |-> ToSet(file.sent_papers)]

\* how a call of save_sent_papers may end
SaveOutcomes == {"ok", "open_error", "write_error", "makedirs_error"}

\* save_sent_papers: [raised, file], the file after the call
save_sent_papers(file, sent, outcome) ==
    CASE outcome = "makedirs_error" ->      \* os.makedirs, outside the try
            [raised |-> TRUE, file |-> file]
      [] outcome = "open_error" ->          \* open(.., 'w') raises IOError
            [raised |-> FALSE, file |-> file]
      [] outcome = "write_error" ->         \* the file was truncated by open
            [raised |-> FALSE,
             file |-> [kind |-> "garbled", sent_papers |-> <<>>]]
      [] OTHER ->
            [raised |-> FALSE,
             file |-> [kind |-> "object", sent_papers |-> SetToList(sent)]]

\* the ids a load of the file yields
HistoryIds(file) == load_sent_papers(file).value

---------------------------------------------------------------------------
(* email_sender.py: send_email *)

\* how the SMTP session, or the reading of the e-mail config, may end
SendOutcomes == {"sent", "smtp_error", "config_error"}

\* send_email: [raised, value, sent]; sent: the digest reached the server
send_email(ps, outcome) ==
    CASE ps = <<>> ->
            [raised |-> FALSE, value |-> TRUE, sent |-> FALSE]
      [] outcome = "config_error" ->        \* config[...] raises KeyError
            [raised |-> TRUE, value |-> FALSE, sent |-> FALSE]
      [] outcome = "smtp_error" ->          \* except Exception: return False
            [raised |-> FALSE, value |-> FALSE, sent |-> FALSE]
      [] OTHER ->
            [raised |-> FALSE, value |-> TRUE, sent |-> TRUE]

---------------------------------------------------------------------------
(* arxiv_alert.py: main *)

\* a bug: the history is updated whenever the run is not a dry run
ShouldUpdate_IgnoresSuccess(s, dry) == ~dry

\* a bug: the history is updated whenever success is set
ShouldUpdate_IgnoresDryRun(s, dry) == s

\* `if success and not args.dry_run`
ShouldUpdate(s, dry) == s /\ ~dry

\* no failed delivery and no dry run in the run before
NoPrev ==
    [failed |-> FALSE, dry |-> FALSE, papers |-> <<>>, keyword_groups |-> <<>>,
     search_title |-> TRUE, search_abstract |-> TRUE,
     matched_papers |-> <<>>]

\* the variables of one run of main, as a fresh process has them
FreshRun ==
    /\ pc = "main"
    /\ keyword_groups = <<>>
    /\ search_title = TRUE
    /\ search_abstract = TRUE
    /\ sent_papers = {}
    /\ papers = <<>>
    /\ matched_papers = <<>>
    /\ success = FALSE
    /\ error = "none"
    /\ exit_code = "running"
    /\ save_result = "none"
    /\ loaded = {}
    /\ email = "none"

Init ==
    /\ FreshRun
    /\ dry_run \in BOOLEAN
    /\ history_file \in HistoryFiles
    /\ history0 = history_file
    /\ history_before = history_file
    /\ prev = NoPrev
    /\ delivered = [i \in Ids |-> 0]
    /\ runs = 1

\* `if not is_weekday(): return`
NotWeekday ==
    /\ pc = "main"
    /\ pc' = "exit"
    /\ exit_code' = "None"
    /\ UNCHANGED <<history_file, keyword_groups, search_title,
                   search_abstract, dry_run, sent_papers, papers,
                   matched_papers, success, error, save_result, loaded,
                   email, delivered, history0,
                   history_before, prev, runs>>

\* load_config raises; main's except clause returns 1
LoadConfigError ==
    /\ pc = "main"
    /\ pc' = "exit"
    /\ error' = "load_config"
    /\ exit_code' = "1"
    /\ UNCHANGED <<history_file, keyword_groups, search_title,
                   search_abstract, dry_run, sent_papers, papers,
                   matched_papers, success, save_result, loaded,
                   email, delivered, history0,
                   history_before, prev, runs>>

\* load_config and the reading of the search options
LoadConfig ==
    /\ pc = "main"
    /\ \E config \in Configs :
          /\ keyword_groups' = config.keyword_groups
          /\ search_title' = config.search_title
          /\ search_abstract' = config.search_abstract
    /\ pc' = "load"
    /\ UNCHANGED <<history_file, dry_run, sent_papers, papers,
                   matched_papers, success, error, exit_code, save_result,
                   loaded, email, delivered, history0,
                   history_before, prev, runs>>

\* sent_papers = load_sent_papers(history_file)
LoadHistory ==
    /\ pc = "load"
    /\ LET r == load_sent_papers(history_file)
       IN  IF r.raised
           THEN /\ pc' = "exit"
                /\ error' = "load_sent_papers"
                /\ exit_code' = "1"
                /\ UNCHANGED <<sent_papers, loaded>>
           ELSE /\ pc' = "fetch"
                /\ sent_papers' = r.value
                /\ loaded' = r.value
                /\ UNCHANGED <<error, exit_code>>
    /\ UNCHANGED <<history_file, keyword_groups, search_title,
                   search_abstract, dry_run, papers, matched_papers,
                   success, save_result, email, delivered, history0,
                   history_before, prev, runs>>

\* papers = fetch_papers_from_rss(..) or fetch_papers(..): any list, the
\* empty list of a failed fetch among them
Fetch ==
    /\ pc = "fetch"
    /\ papers' \in PaperLists
    /\ pc' = "search"
    /\ UNCHANGED <<history_file, keyword_groups, search_title,
                   search_abstract, dry_run, sent_papers, matched_papers,
                   success, error, exit_code, save_result, loaded, email,
                   delivered, history0,
                   history_before, prev, runs>>

\* matched_papers = search_papers(..)
Search ==
    /\ pc = "search"
    /\ LET r == search_papers(papers, keyword_groups, search_title,
                              search_abstract, sent_papers)
       IN  /\ matched_papers' = r.matched_papers
           /\ sent_papers' = r.sent_papers
           /\ papers' = r.papers
           /\ keyword_groups' = r.keyword_groups
    /\ pc' = "notify"
    /\ UNCHANGED <<history_file, search_title, search_abstract, dry_run,
                   success, error, exit_code, save_result, loaded, email,
                   delivered, history0,
                   history_before, prev, runs>>

\* `if matched_papers:` is false
NoMatch ==
    /\ pc = "notify"
    /\ matched_papers = <<>>
    /\ pc' = "exit"
    /\ exit_code' = "0"
    /\ UNCHANGED <<history_file, keyword_groups, search_title,
                   search_abstract, dry_run, sent_papers, papers,
                   matched_papers, success, error, save_result, loaded,
                   email, delivered, history0,
                   history_before, prev, runs>>

\* `if args.dry_run:` success = True, no e-mail
DryRun ==
    /\ pc = "notify"
    /\ matched_papers # <<>>
    /\ dry_run
    /\ success' = TRUE
    /\ pc' = "update"
    /\ UNCHANGED <<history_file, keyword_groups, search_title,
                   search_abstract, dry_run, sent_papers, papers,
                   matched_papers, error, exit_code, save_result, loaded,
                   email, delivered, history0,
                   history_before, prev, runs>>

\* success = send_email(email_config, matched_papers, keyword_groups)
Send ==
    /\ pc = "notify"
    /\ matched_papers # <<>>
    /\ ~dry_run
    /\ \E outcome \in SendOutcomes :
          LET r == send_email(matched_papers, outcome)
          IN  /\ email' = IF r.sent THEN "sent" ELSE "failed"
              /\ delivered' = [i \in Ids |->
                                 IF r.sent /\ i \in IdsOf(matched_papers)
                                 THEN delivered[i] + 1 ELSE delivered[i]]
              /\ IF r.raised
                 THEN /\ pc' = "exit"
                      /\ error' = "send_email"
                      /\ exit_code' = "1"
                      /\ UNCHANGED success
                 ELSE /\ pc' = "update"
                      /\ success' = r.value
                      /\ UNCHANGED <<error, exit_code>>
    /\ UNCHANGED <<history_file, keyword_groups, search_title,
                   search_abstract, dry_run, sent_papers, papers,
                   matched_papers, save_result, loaded, history0,
                   history_before, prev, runs>>

\* `if success and not args.dry_run:` is false
SkipUpdate ==
    /\ pc = "update"
    /\ ~ShouldUpdate(success, dry_run)
    /\ pc' = "exit"
    /\ exit_code' = "0"
    /\ UNCHANGED <<history_file, keyword_groups, search_title,
                   search_abstract, dry_run, sent_papers, papers,
                   matched_papers, success, error, save_result, loaded,
                   email, delivered, history0,
                   history_before, prev, runs>>

\* sent_papers.add(paper['id']) for each match, then save_sent_papers
Update ==
    /\ pc = "update"
    /\ ShouldUpdate(success, dry_run)
    /\ sent_papers' = sent_papers \cup IdsOf(matched_papers)
    /\ \E outcome \in SaveOutcomes :
          LET r == save_sent_papers(history_file, sent_papers', outcome)
          IN  /\ history_file' = r.file
              /\ save_result' = outcome
              /\ IF r.raised
                 THEN /\ error' = "save_sent_papers"
                      /\ exit_code' = "1"
                 ELSE /\ exit_code' = "0"
                      /\ UNCHANGED error
    /\ pc' = "exit"
    /\ UNCHANGED <<keyword_groups, search_title, search_abstract, dry_run,
                   papers, matched_papers, success, loaded, email,
                   delivered, history0,
                   history_before, prev, runs>>

\* the scheduler starts main again: a fresh process, the same history file
NextRun ==
    /\ pc = "exit"
    /\ runs < MaxRuns
    /\ runs' = runs + 1
    /\ pc' = "main"
    /\ dry_run' \in BOOLEAN
    /\ keyword_groups' = <<>>
    /\ search_title' = TRUE
    /\ search_abstract' = TRUE
    /\ sent_papers' = {}
    /\ papers' = <<>>
    /\ matched_papers' = <<>>
    /\ success' = FALSE
    /\ error' = "none"
    /\ exit_code' = "running"
    /\ save_result' = "none"
    /\ loaded' = {}
    /\ email' = "none"
    /\ history_before' = history_file
    /\ prev' = IF \/ email = "failed" /\ error = "none"
                  \/ dry_run /\ exit_code = "0"
               THEN [failed |-> email = "failed", dry |-> dry_run,
                     papers |-> papers,
                     keyword_groups |-> keyword_groups,
                     search_title |-> search_title,
                     search_abstract |-> search_abstract,
                     matched_papers |-> matched_papers]
               ELSE NoPrev
    /\ UNCHANGED <<history_file, delivered, history0>>

Next ==
    \/ NotWeekday
    \/ LoadConfigError
    \/ LoadConfig
    \/ LoadHistory
    \/ Fetch
    \/ Search
    \/ NoMatch
    \/ DryRun
    \/ Send
    \/ SkipUpdate
    \/ Update
    \/ NextRun

Spec == Init /\ [][Next]_vars

---------------------------------------------------------------------------
(* search_papers alone, on every input of the bounded sets *)

InitSearch ==
    /\ pc = "call"
    /\ papers \in PaperLists
    /\ keyword_groups \in RuleSets
    /\ search_title \in BOOLEAN
    /\ search_abstract \in BOOLEAN
    /\ sent_papers \in SUBSET Ids
    /\ matched_papers = <<>>
    /\ dry_run = FALSE
    /\ success = FALSE
    /\ error = "none"
    /\ exit_code = "running"
    /\ save_result = "none"
    /\ loaded = sent_papers
    /\ email = "none"
    /\ history_file = [kind |-> "absent", sent_papers |-> <<>>]
    /\ history0 = history_file
    /\ history_before = history_file
    /\ prev = NoPrev
    /\ delivered = [i \in Ids |-> 0]
    /\ runs = 1

CallSearch ==
    /\ pc = "call"
    /\ LET r == search_papers(papers, keyword_groups, search_title,
                              search_abstract, sent_papers)
       IN  /\ matched_papers' = r.matched_papers
           /\ sent_papers' = r.sent_papers
           /\ papers' = r.papers
           /\ keyword_groups' = r.keyword_groups
    /\ pc' = "return"
    /\ UNCHANGED <<history_file, search_title, search_abstract, dry_run,
                   success, error, exit_code, save_result, loaded, email,
                   delivered, history0,
                   history_before, prev, runs>>

NextSearch == CallSearch

SpecSearch == InitSearch /\ [][NextSearch]_vars

---------------------------------------------------------------------------
(* Properties of main and of the history file, under Spec *)

\* the ids of the digest this run delivered
DeliveredNow == IF email = "sent" THEN IdsOf(matched_papers) ELSE {}

\* the ids of every digest delivered so far
DeliveredEver == {i \in Ids : delivered[i] > 0}

\* send_email returned False in this run
DeliveryFailed == email = "failed" /\ error # "send_email"

\* C1: an id is in the set of sent papers, in memory or in the history
\* file, only if it was loaded from the history or a digest holding it was
\* delivered: in memory, every id is one this run loaded or delivered; on
\* disk, every id is one of the first history or of a delivered digest.
C1_SeenOnlyAfterDelivery ==
    /\ sent_papers \subseteq loaded \cup DeliveredNow
    /\ HistoryIds(history_file) \subseteq HistoryIds(history0) \cup DeliveredEver

\* a run added a delivered id to the set and to the file
C1_Witness ==
    /\ pc = "exit"
    /\ email = "sent"
    /\ \E i \in sent_papers :
          /\ i \notin loaded
          /\ i \in DeliveredNow
          /\ i \in HistoryIds(history_file)
          /\ i \notin HistoryIds(history0)

\* the run now at `notify` got the papers, rules and scope of the run
\* before, whose delivery failed
RetryOfFailedRun ==
    /\ prev.failed
    /\ pc = "notify"
    /\ papers = prev.papers
    /\ keyword_groups = prev.keyword_groups
    /\ search_title = prev.search_title
    /\ search_abstract = prev.search_abstract

\* C2: a run whose delivery failed ends normally with the set of sent
\* papers as loaded and the history file as it was when the run started,
\* nothing having been saved; and the run after it, given the same papers,
\* rules and scope, computes the same matches.
C2_FailedDeliveryIsRetried ==
    /\ (pc = "exit" /\ DeliveryFailed) =>
          /\ sent_papers = loaded
          /\ save_result = "none"
          /\ history_file = history_before
          /\ exit_code = "0"
          /\ error = "none"
    /\ RetryOfFailedRun => matched_papers = prev.matched_papers

\* a run repeats the matches of the failed run before it
C2_Witness ==
    /\ RetryOfFailedRun
    /\ matched_papers # <<>>
    /\ matched_papers = prev.matched_papers

\* C3: after a save that failed, a load of the history file yields what a
\* load yielded before the save.
C3_FailedSaveKeepsHistory ==
    (pc = "exit" /\ save_result \in {"open_error", "write_error"}) =>
        /\ ~load_sent_papers(history_file).raised
        /\ HistoryIds(history_file) = HistoryIds(history_before)

\* main has called load_sent_papers in this run
LoadCalled ==
    \/ pc \in {"fetch", "search", "notify", "update"}
    \/ pc = "exit" /\ exit_code # "None" /\ error # "load_config"

\* C4: load_sent_papers on a history file that is absent, unreadable or
\* not the JSON object expected returns the empty set and raises nothing.
C4_LoadNeverAborts ==
    (LoadCalled /\ history_before.kind # "object") =>
        /\ error # "load_sent_papers"
        /\ loaded = {}

\* C5: no paper is in the delivered digests of two runs.
C5_NeverDeliveredTwice ==
    \A i \in Ids : delivered[i] <= 1

---------------------------------------------------------------------------
(* Properties of search_papers, under SpecSearch *)

\* every keyword of the group occurs in the text, whatever its case
GroupSatisfied(group, text) ==
    \A k \in DOMAIN group : Contains(Lower(group[k]), text)

\* the paper satisfies group g of the rules
Satisfies(paper, g) ==
    GroupSatisfied(keyword_groups[g],
                   SearchText(paper, search_title, search_abstract))

InMatches(paper) == \E j \in DOMAIN matched_papers : matched_papers[j] = paper

\* s can be had from t by dropping elements
RECURSIVE IsSubsequence(_, _)
IsSubsequence(s, t) ==
    IF s = <<>> THEN TRUE
    ELSE IF t = <<>> THEN FALSE
    ELSE IF Head(s) = Head(t) THEN IsSubsequence(Tail(s), Tail(t))
    ELSE IsSubsequence(s, Tail(t))

\* C6: no paper whose id is in the set of sent papers is in the result of
\* search_papers, whatever the rules and the scope.
C6_SeenNeverMatched ==
    pc = "return" =>
        \A j \in DOMAIN matched_papers : matched_papers[j].id \notin sent_papers

\* a sent paper that satisfies a group was left out, another was matched
C6_Witness ==
    /\ pc = "return"
    /\ matched_papers # <<>>
    /\ \E i \in DOMAIN papers :
          /\ papers[i].id \in sent_papers
          /\ search_title
          /\ \E g \in DOMAIN keyword_groups :
                keyword_groups[g] # <<>> /\ Satisfies(papers[i], g)
          /\ ~InMatches(papers[i])

\* C7: a paper not yet sent, searched with at least one scope flag set, is
\* in the result if and only if it satisfies at least one group, that is
\* every keyword of that group occurs in its searchable text.
C7_OrOfAnd ==
    (pc = "return" /\ (search_title \/ search_abstract)) =>
        \A i \in DOMAIN papers :
            papers[i].id \notin sent_papers =>
                (InMatches(papers[i]) <=>
                    \E g \in DOMAIN keyword_groups : Satisfies(papers[i], g))

\* a paper fails the first group, with one keyword of it present, and is
\* matched through the second; another paper of the call is not matched
C7_Witness ==
    /\ pc = "return"
    /\ Len(keyword_groups) = 2
    /\ \E i \in DOMAIN papers :
          /\ papers[i].id \notin sent_papers
          /\ ~Satisfies(papers[i], 1)
          /\ \E k \in DOMAIN keyword_groups[1] :
                Contains(Lower(keyword_groups[1][k]),
                         SearchText(papers[i], search_title, search_abstract))
          /\ Satisfies(papers[i], 2)
          /\ InMatches(papers[i])
    /\ \E i \in DOMAIN papers :
          /\ papers[i].id \notin sent_papers
          /\ ~InMatches(papers[i])

\* C8: the result of search_papers is a subsequence of the papers given:
\* input papers, each at most once per occurrence, in input order.
C8_OrderPreservingSubsequence ==
    pc = "return" => IsSubsequence(matched_papers, papers)

\* two different papers are matched, in input order, the second of them
\* satisfying both groups and matched once
C8_Witness ==
    /\ pc = "return"
    /\ Len(keyword_groups) = 2
    /\ Len(papers) = 2
    /\ papers[1] # papers[2]
    /\ Satisfies(papers[2], 1)
    /\ Satisfies(papers[2], 2)
    /\ matched_papers = papers

\* C9: with both scope flags false, the result of search_papers is empty
\* for every list of papers, set of sent papers and non-empty rule set.
C9_NoScopeNoMatch ==
    (pc = "return" /\ ~search_title /\ ~search_abstract
        /\ keyword_groups # <<>>) =>
            matched_papers = <<>>

\* both flags false, a paper not yet sent, and a group with no keyword,
\* which no text can fail
C9_Witness ==
    /\ pc = "return"
    /\ ~search_title
    /\ ~search_abstract
    /\ \E g \in DOMAIN keyword_groups : keyword_groups[g] = <<>>
    /\ \E i \in DOMAIN papers : papers[i].id \notin sent_papers
    /\ matched_papers = <<>>

---------------------------------------------------------------------------
(* The frame of search_papers in main, under Spec *)

\* C10: the step of main that calls search_papers leaves the set of sent
\* papers, the papers, the rules and the history file as they were; the
\* set of sent papers changes only where main loads it or updates it (or
\* where a new process starts).
C10_SearchMutatesNothing ==
    [][/\ pc = "search" =>
            /\ sent_papers' = sent_papers
            /\ papers' = papers
            /\ keyword_groups' = keyword_groups
            /\ history_file' = history_file
       /\ sent_papers' # sent_papers => pc \in {"load", "update", "exit"}]_vars

\* a search has matched a paper and the non-empty set is as it was loaded
C10_Witness ==
    /\ pc = "notify"
    /\ matched_papers # <<>>
    /\ sent_papers # {}
    /\ sent_papers = loaded

---------------------------------------------------------------------------
(* The empty group and the empty rule set, under SpecSearch *)

\* C11: when the rules hold a group with no keyword and at least one scope
\* flag is set, every input paper whose id is not in the set of sent
\* papers is in the result of search_papers; with no group at all the
\* result is empty.
C11_EmptyGroupMatchesAll ==
    pc = "return" =>
        /\ ((search_title \/ search_abstract)
              /\ \E g \in DOMAIN keyword_groups : keyword_groups[g] = <<>>) =>
                 \A i \in DOMAIN papers :
                     papers[i].id \notin sent_papers => InMatches(papers[i])
        /\ keyword_groups = <<>> => matched_papers = <<>>

\* a paper that satisfies no group with a keyword is matched through the
\* group with none, which comes after a group it fails
C11_Witness ==
    /\ pc = "return"
    /\ search_title \/ search_abstract
    /\ Len(keyword_groups) = 2
    /\ keyword_groups[1] # <<>>
    /\ keyword_groups[2] = <<>>
    /\ \E i \in DOMAIN papers :
          /\ papers[i].id \notin sent_papers
          /\ ~Satisfies(papers[i], 1)
          /\ InMatches(papers[i])

---------------------------------------------------------------------------
(* The dry run, under Spec *)

\* the run now at `notify` is a normal run that got the papers, rules and
\* scope of the run before, which was a dry run
NormalRunAfterDryRun ==
    /\ prev.dry
    /\ ~dry_run
    /\ pc = "notify"
    /\ papers = prev.papers
    /\ keyword_groups = prev.keyword_groups
    /\ search_title = prev.search_title
    /\ search_abstract = prev.search_abstract

\* C12: a run with --dry-run sends no e-mail, saves nothing and leaves the
\* set of sent papers as loaded and the history file as it was when the
\* run started, whether or not papers matched; the normal run after it,
\* given the same papers, rules and scope, computes the same matches.
C12_DryRunChangesNothing ==
    /\ dry_run =>
          /\ email = "none"
          /\ sent_papers = loaded
          /\ save_result = "none"
          /\ history_file = history_before
          /\ HistoryIds(history_file) = HistoryIds(history_before)
    /\ NormalRunAfterDryRun => matched_papers = prev.matched_papers

\* a normal run repeats the matches a dry run reported before it
C12_Witness ==
    /\ NormalRunAfterDryRun
    /\ prev.matched_papers # <<>>
    /\ matched_papers = prev.matched_papers

====
